---- MODULE Spec2Model ----
(***************************************************************************)
(* The run loop of webnav.agent.Agent (run, _solve_step,                   *)
(* _submit_and_check, _try_skip_step) together with StateTracker and       *)
(* MetricsCollector, as a state machine.  The browser page is the          *)
(* environment: its URL and its content change at the agent's suspension   *)
(* points (the awaits), and the wall clock advances there too.             *)
(***************************************************************************)
EXTENDS Integers, Sequences, FiniteSets, TLC

\* ---- configuration (ChallengeConfig) and literals of agent.py ----------
total_steps == 2         \* ChallengeConfig.total_steps, scaled down
max_time == 36           \* ChallengeConfig.max_time (seconds), scaled down
max_retries == 2         \* ChallengeConfig.max_retries
AttemptTimeout == 11     \* asyncio.wait_for(..., timeout=11.0)
max_step_total == 22     \* max seconds on a single step
SkipOffsets == 3         \* range(1, 4)
AdvancePolls == 3        \* for _ in range(3) in _submit_and_check

\* ---- bounds of the model -----------------------------------------------
NumCodes == 1            \* distinct codes the page can show
TickSeconds == 12        \* the clock advances in quanta of this size
MaxScan == 3             \* distinct codes a scanned page can hold
MaxElements == 2         \* elements of a page handed to the instruction parser
MaxActions == 2          \* actions in a list handed to the executor

Codes == 1..NumCodes
NoCode == 0
NoStep == -1             \* the URL holds no /step<N>
UrlValues == {NoStep} \cup (0..(total_steps + 1))

VARIABLES
    pc,                 \* position of the single control path
    now,                \* time.time() - state.start_time
    url,                \* step number in page.url, or NoStep
    current_step,       \* run(): the step observed at the loop top
    last_step,          \* run(): last_step
    attempts_on_step,   \* run(): attempts_on_step
    step_history,       \* run(): len(step_history)
    step_start_time,    \* run(): step_start_time
    abandoned_steps,    \* run(): abandoned_steps
    used_codes,         \* Agent._used_codes
    state_current_step, \* StateTracker.current_step
    t0,                 \* start of the attempt in flight
    code,               \* _solve_step: the code being submitted
    pre_acted,          \* _solve_step: pre_acted
    site,               \* which call of _submit_and_check is in flight
    poll,               \* _submit_and_check: polls done
    skip_offset,        \* run(): skip_offset of the skip loop
    success,            \* run(): success
    metric_open,        \* MetricsCollector._current is not None
    submitted,          \* the codes submit_code was called with
    attempt_log,        \* what the attempt in flight did so far
    solver,             \* what Agent.solver is: the Solver of solver.py, or a double
    scan,               \* a call of find_code: its page, its used_codes, its result
    not_found,          \* _try_skip_step: the body of the page navigated to
                        \* says "not found" or "broken link"
    batch,              \* _solve_step: the actions being executed, one by one
    tier0               \* two calls of _parse_instruction_actions and their results

vars == <<pc, now, url, current_step, last_step, attempts_on_step, step_history,
          step_start_time, abandoned_steps, used_codes, state_current_step, t0,
          code, pre_acted, site, poll, skip_offset, success, metric_open,
          submitted, attempt_log, solver, scan, tier0, not_found, batch>>

\* what no step of the run loop changes
fixed_vars == <<solver, scan, tier0, batch>>

Min(a, b) == IF a < b THEN a ELSE b

\* ---- pure helpers --------------------------------------------------------

\* StateTracker.detect_step_from_url: the step in the URL, else the tracker's own
detect_step_from_url(u, cs) == IF u # NoStep THEN u ELSE cs

\* variant: the loop without its budget test (while True)
is_over_budget_never(t) == FALSE

\* variant: the budget test with > in place of >=
is_over_budget_strict(t) == t > max_time

\* StateTracker.is_over_budget
is_over_budget(t) == t >= max_time

\* variant: the advancement test with >= in place of >
check_advancement_loose(u, cs, expected_step) == detect_step_from_url(u, cs) >= expected_step

\* StateTracker.check_advancement
check_advancement(u, cs, expected_step) == detect_step_from_url(u, cs) > expected_step

\* sequences of distinct codes: what _extract_candidates yields, in text order
Texts(C) == {s \in UNION {[1..n -> C] : n \in 0..Cardinality(C)} :
                \A i, j \in DOMAIN s : i # j => s[i] # s[j]}

PageTexts == Texts(Codes)

\* what find_code reads of a page: the code of the green / "code revealed"
\* scan, the candidates of the body text, the code of the later scans
\* (hidden DOM, shadow DOM, iframes, Base64, script tags, advanced)
Pages(C) == [green : C \cup {NoCode}, text : Texts(C), hidden : C \cup {NoCode}]

RECURSIVE FirstNotIn(_, _)
FirstNotIn(s, skip) ==
    IF s = <<>> THEN NoCode
    ELSE IF Head(s) \notin skip THEN Head(s) ELSE FirstNotIn(Tail(s), skip)

\* variant: find_code without its "not in skip" tests
find_code_unfiltered(page, skip) ==
    IF page.green # NoCode THEN page.green
    ELSE IF page.text # <<>> THEN Head(page.text)
    ELSE page.hidden

\* variant: find_code scanning the body text before the green boxes
find_code_text_first(page, skip) ==
    IF FirstNotIn(page.text, skip) # NoCode THEN FirstNotIn(page.text, skip)
    ELSE IF page.green # NoCode /\ page.green \notin skip THEN page.green
    ELSE IF page.hidden # NoCode /\ page.hidden \notin skip THEN page.hidden
    ELSE NoCode

\* extractor.find_code: the green code, else the first candidate of the body
\* text, else the code of a later scan; a code in used_codes is passed over
find_code(page, skip) ==
    IF page.green # NoCode /\ page.green \notin skip THEN page.green
    ELSE IF FirstNotIn(page.text, skip) # NoCode THEN FirstNotIn(page.text, skip)
    ELSE IF page.hidden # NoCode /\ page.hidden \notin skip THEN page.hidden
    ELSE NoCode

ScanCodes == 1..MaxScan

\* no call of find_code is under way
NoScan == [page |-> [green |-> NoCode, text |-> <<>>, hidden |-> NoCode],
           skip |-> {}, returned |-> FALSE, out |-> NoCode]

\* ---- _parse_instruction_actions ------------------------------------------

\* what the parser reads of the instruction: the phrases it contains
Phrases == {"wait", "hover", "canvas", "complete all"}

\* what the parser reads of an ElementInfo: tag, the phrases in name,
\* "clickable" in extra, the area of bbox; index is the place in the list
ElementKinds ==
    { [tag |-> "div", name |-> {"hover here", "hover"}, clickable |-> FALSE, area |-> 1],
      [tag |-> "div", name |-> {"hover here", "hover"}, clickable |-> TRUE, area |-> 2],
      [tag |-> "div", name |-> {"hover"}, clickable |-> TRUE, area |-> 1],
      [tag |-> "button", name |-> {"hover here", "hover", "code"}, clickable |-> TRUE, area |-> 1],
      [tag |-> "canvas", name |-> {}, clickable |-> FALSE, area |-> 2] }

ElementLists == UNION {[1..n -> ElementKinds] : n \in 0..MaxElements}

NoElement == 0

\* el.tag in ("input", "button") and ("submit" in name_l or "code" in name_l)
form_control(el) == el.tag \in {"input", "button"} /\ el.name \cap {"submit", "code"} # {}

\* variant: every element of the page is a hover candidate
hover_candidates_all(elements) == DOMAIN elements

\* hover_candidates: the elements named "hover here" / "hover over" that are
\* not controls of the submit form
hover_candidates(elements) ==
    {i \in DOMAIN elements : ~form_control(elements[i]) /\ "hover here" \in elements[i].name}

\* _hover_sort_key: (0 if clickable else 1, area), compared lexicographically
hover_sort_key(el) == (IF el.clickable THEN 0 ELSE 1) * 4 + el.area

\* the smallest index in a non-empty set of indices
First(I) == CHOOSE i \in I : \A j \in I : i <= j

\* hover_el: min(hover_candidates, key), else the first clickable element
\* with "hover" in its name, else None
hover_el(elements) ==
    LET cands == hover_candidates(elements)
        best == {i \in cands : \A j \in cands :
                    hover_sort_key(elements[i]) <= hover_sort_key(elements[j])}
        fallback == {i \in DOMAIN elements :
                        /\ ~form_control(elements[i])
                        /\ "hover" \in elements[i].name
                        /\ elements[i].clickable}
    IN  IF cands # {} THEN First(best)
        ELSE IF fallback # {} THEN First(fallback)
        ELSE NoElement

\* canvas_el: next((el for el in elements if el.tag == "canvas"), None)
canvas_el(elements) ==
    LET cs == {i \in DOMAIN elements : elements[i].tag = "canvas"}
    IN  IF cs # {} THEN First(cs) ELSE NoElement

\* _parse_instruction_actions(instruction, elements): the actions appended,
\* in the order of the function's branches
parse_instruction_actions(inst, elements) ==
    (IF "wait" \in inst THEN <<[type |-> "wait", element |-> NoElement]>> ELSE <<>>)
    \o (IF "hover" \in inst /\ (hover_el(elements) # NoElement \/ "complete all" \notin inst)
        THEN <<[type |-> "hover", element |-> hover_el(elements)]>> ELSE <<>>)
    \o (IF "canvas" \in inst
        THEN <<[type |-> "draw_strokes", element |-> canvas_el(elements)]>> ELSE <<>>)

\* no call of _parse_instruction_actions was made
NoTier0 == [inst |-> {}, first |-> <<>>, second |-> <<>>, calls |-> 0,
            out1 |-> <<>>, out2 |-> <<>>]

\* variant: the first visible code, used or not
visible_code_any(visible, skip) == FirstNotIn(visible, {})

\* ---- executor.run ----------------------------------------------------------

\* the cases of "match action.type"
KnownTypes == {"click", "fill", "scroll", "wait", "press", "js", "hover", "select",
               "drag", "key_sequence", "scroll_element", "draw_strokes"}

\* the actions of the model: a type with a case and one without; no element,
\* the index of an element that has a selector, an index outside the list
Actions == [type : {"click", "teleport"}, target : {"none", "indexed", "outside"}]

ActionLists == UNION {[1..n -> Actions] : n \in 1..MaxActions}

\* executor.run(page, action, elements): _unhide_noise_parent is awaited
\* before the try block, the match inside it.  unhide_raises: page.evaluate
\* raises in _unhide_noise_parent; apply: what applying the action does
executor_run(action, unhide_raises, apply) ==
    IF action.target = "indexed" /\ unhide_raises THEN "raised"
    ELSE IF action.type \notin KnownTypes THEN "False"
    ELSE IF apply = "ok" THEN "True"
    ELSE "False"

\* no list of actions is being executed
NoBatch == [actions |-> <<>>, done |-> 0, results |-> <<>>, aborted |-> FALSE]

\* _solve_step: next((c for c in page_state.visible_codes if c not in used), None)
visible_code(visible, skip) == FirstNotIn(visible, skip)

\* variant: end_step without "if self._current is None: return"
end_step_always(open, log, ok, err) ==
    [log EXCEPT !.metrics = IF @ + 1 < 2 THEN @ + 1 ELSE 2,
                !.metric = [success |-> ok, error |-> err]]

\* MetricsCollector.end_step(success, error): appends the open metric and
\* closes it, or does nothing when none is open.  log is the attempt's log,
\* whose fields metrics and metric are the number of StepMetrics appended
\* and the one appended last
end_step(open, log, ok, err) ==
    IF open
    THEN [log EXCEPT !.metrics = Min(@ + 1, 2),
                     !.metric = [success |-> ok, error |-> err]]
    ELSE log

\* StateTracker.mark_completed, counted per attempt
mark_completed(log) == [log EXCEPT !.completed = Min(@ + 1, 2)]

\* StateTracker.mark_failed, counted per attempt
mark_failed(log) == [log EXCEPT !.failed = Min(@ + 1, 2)]

\* the pcs at which the control path is suspended in an await
AttemptPcs == {"perceive", "pre1", "pre2", "pre3", "seq", "reason", "act",
               "sac_clean", "sac_submit", "sac_poll"}
SuspendedPcs == AttemptPcs \cup {"idle", "settle", "skip_wait", "skip_back"}

\* A navigation of the page during an await shows only at the next read of
\* page.url, so the page moves at the last suspension before each read: in
\* the sleeps before the loop top, before each advancement check, before the
\* skip is verified, and ("after") during the await an attempt ended in
UrlReadPcs == {"idle", "settle", "sac_poll", "skip_wait", "after"}

\* awaits of _solve_step whose exceptions are not swallowed where they are made
RaisingPcs == {"perceive", "pre1", "pre2", "pre3", "seq", "reason", "act", "sac_clean"}

\* variant: _submit_and_check called outside the try block
TryBlockBeforeSubmit == AttemptPcs \ {"sac_clean", "sac_submit", "sac_poll"}

\* the try block of _solve_step (except Exception at its end)
TryBlockPcs == AttemptPcs

NoMetric == [success |-> FALSE, error |-> FALSE]
NewLog == [raised |-> FALSE, polled |-> FALSE, failed |-> 0, completed |-> 0,
           metrics |-> 0, metric |-> NoMetric, tier |-> 0, history |-> <<>>]

\* Agent.solver is Solver() after construction; the tests of the agent put
\* doubles in the place of its solve and solve_stuck, which take any keyword
Solvers == {"Solver", "double"}
\* the parameters of Solver.solve and of Solver.solve_stuck
SolveParams == {"state", "history"}
SolveStuckParams == {"state", "screenshot", "history"}
\* the keyword the agent passes to both: temperature=0.0, temperature=0.3
TierKeywords == {"temperature"}

\* variant: the recovery tier from the third attempt on only
tier_of_late(attempt) == IF attempt >= 2 THEN 2 ELSE 1

\* if attempt >= 1: solve_stuck (tier 2), else: solve (tier 1)
tier_of(attempt) == IF attempt >= 1 THEN 2 ELSE 1

\* the call binds its arguments: with a keyword that is no parameter,
\* Python raises TypeError in place of running the method
Binds(s, attempt) ==
    \/ s = "double"
    \/ TierKeywords \subseteq (IF tier_of(attempt) = 2 THEN SolveStuckParams ELSE SolveParams)

Init ==
    /\ pc = "loop"
    /\ now = 0
    /\ url \in UrlValues
    /\ current_step = 0
    /\ last_step = 0
    /\ attempts_on_step = 0
    /\ step_history = 0
    /\ step_start_time = 0
    /\ abandoned_steps = {}
    /\ used_codes = {}
    /\ state_current_step = 1
    /\ t0 = 0
    /\ code = NoCode
    /\ pre_acted = FALSE
    /\ site = "none"
    /\ poll = 0
    /\ skip_offset = 0
    /\ success = FALSE
    /\ metric_open = FALSE
    /\ submitted = {}
    /\ attempt_log = NewLog
    /\ solver \in Solvers
    /\ not_found = FALSE
    /\ scan = NoScan
    /\ tier0 = NoTier0
    /\ batch = NoBatch

attempt_vars == <<t0, code, pre_acted, site, poll, success, metric_open,
                  submitted, attempt_log, used_codes, state_current_step>>
run_vars == <<current_step, last_step, attempts_on_step, step_history,
              step_start_time, abandoned_steps, skip_offset>>

\* ---- environment ---------------------------------------------------------

\* the wall clock advances while the control path is suspended; wait_for
\* cancels the attempt once AttemptTimeout has elapsed
\* asyncio.wait_for(..., timeout=11.0): the timer of the attempt has fired
TimerFired == now - t0 >= AttemptTimeout

Tick ==
    /\ pc \in SuspendedPcs
    /\ now < max_time
    /\ pc \in AttemptPcs => ~TimerFired
    /\ now' = now + TickSeconds
    /\ UNCHANGED <<pc, url>>
    /\ UNCHANGED attempt_vars
    /\ UNCHANGED run_vars
    /\ UNCHANGED <<fixed_vars, not_found>>

\* the page navigates (a submission was accepted, a link was followed, ...)
EnvMove ==
    /\ pc \in UrlReadPcs
    /\ pc = "after" => ~attempt_log.polled
    /\ \E u \in UrlValues \ {url} : url' = u
    /\ UNCHANGED <<pc, now>>
    /\ UNCHANGED attempt_vars
    /\ UNCHANGED run_vars
    /\ UNCHANGED <<fixed_vars, not_found>>

\* ---- Agent.run: the loop top ---------------------------------------------

\* the step the loop top observes
Observed == detect_step_from_url(url, state_current_step)

\* variant: the per-step state is not reset when the step changes
AttemptsKeptAtTop == attempts_on_step

\* if current_step != last_step: reset the per-step state
StepChanged == Observed # last_step
AttemptsAtTop == IF StepChanged THEN 0 ELSE attempts_on_step
HistoryAtTop == IF StepChanged THEN 0 ELSE step_history
StepStartAtTop == IF StepChanged THEN now ELSE step_start_time

\* variant: the loop top without "if current_step in abandoned_steps: break"
WorkableAbandoned ==
    /\ pc = "loop"
    /\ ~is_over_budget(now)
    /\ Observed <= total_steps
    /\ Observed # 0

\* the loop goes on to work on the observed step
Workable ==
    /\ pc = "loop"
    /\ ~is_over_budget(now)
    /\ Observed <= total_steps
    /\ Observed # 0
    /\ Observed \notin abandoned_steps

\* variant: the ceiling test without "and attempts_on_step > 0"
StepCeilingHitAnyCount == now - StepStartAtTop > max_step_total

\* time.time() - step_start_time > max_step_total and attempts_on_step > 0
StepCeilingHit == now - StepStartAtTop > max_step_total /\ AttemptsAtTop > 0

\* while not self.state.is_over_budget()
LoopBudgetExit ==
    /\ pc = "loop"
    /\ is_over_budget(now)
    /\ pc' = "done"
    /\ UNCHANGED <<now, url>>
    /\ UNCHANGED attempt_vars
    /\ UNCHANGED run_vars
    /\ UNCHANGED <<fixed_vars, not_found>>

\* if current_step > total_steps: break
LoopCompleted ==
    /\ pc = "loop"
    /\ ~is_over_budget(now)
    /\ Observed > total_steps
    /\ current_step' = Observed
    /\ pc' = "done"
    /\ UNCHANGED <<now, url, last_step, attempts_on_step, step_history,
                   step_start_time, abandoned_steps, skip_offset>>
    /\ UNCHANGED attempt_vars
    /\ UNCHANGED <<fixed_vars, not_found>>

\* if current_step == 0: sleep and continue
LoopUnknown ==
    /\ pc = "loop"
    /\ ~is_over_budget(now)
    /\ Observed = 0
    /\ current_step' = Observed
    /\ pc' = "idle"
    /\ UNCHANGED <<now, url, last_step, attempts_on_step, step_history,
                   step_start_time, abandoned_steps, skip_offset>>
    /\ UNCHANGED attempt_vars
    /\ UNCHANGED <<fixed_vars, not_found>>

\* the sleep is over: continue (current_step is assigned anew at the loop
\* top; between iterations the model holds it at 0)
IdleDone ==
    /\ pc = "idle"
    /\ pc' = "loop"
    /\ current_step' = 0
    /\ UNCHANGED <<now, url, last_step, attempts_on_step, step_history,
                   step_start_time, abandoned_steps, skip_offset>>
    /\ UNCHANGED attempt_vars
    /\ UNCHANGED <<fixed_vars, not_found>>

\* if current_step in abandoned_steps: break
LoopAbandonedExit ==
    /\ pc = "loop"
    /\ ~is_over_budget(now)
    /\ Observed <= total_steps
    /\ Observed # 0
    /\ Observed \in abandoned_steps
    /\ current_step' = Observed
    /\ pc' = "done"
    /\ UNCHANGED <<now, url, last_step, attempts_on_step, step_history,
                   step_start_time, abandoned_steps, skip_offset>>
    /\ UNCHANGED attempt_vars
    /\ UNCHANGED <<fixed_vars, not_found>>

\* the time-based skip: enter the skip loop with skip_offset = 1
LoopTimeSkip ==
    /\ Workable
    /\ StepCeilingHit
    /\ current_step' = Observed
    /\ last_step' = Observed
    /\ attempts_on_step' = AttemptsAtTop
    /\ step_history' = HistoryAtTop
    /\ step_start_time' = StepStartAtTop
    /\ skip_offset' = 1
    /\ pc' = "skip_nav"
    /\ UNCHANGED <<now, url, abandoned_steps>>
    /\ UNCHANGED attempt_vars
    /\ UNCHANGED <<fixed_vars, not_found>>

\* wait_for(self._solve_step(current_step, attempts_on_step, step_history), 11.0):
\* _solve_step runs up to its first await (begin_step on tracker and metrics)
LoopAttempt ==
    /\ Workable
    /\ ~StepCeilingHit
    /\ current_step' = Observed
    /\ last_step' = Observed
    /\ attempts_on_step' = AttemptsAtTop
    /\ step_history' = HistoryAtTop
    /\ step_start_time' = StepStartAtTop
    /\ state_current_step' = Observed
    /\ metric_open' = TRUE
    /\ t0' = now
    /\ pc' = "perceive"
    /\ UNCHANGED <<now, url, abandoned_steps, skip_offset, attempt_log, pre_acted,
                   code, site, poll, success, submitted, used_codes>>
    /\ UNCHANGED <<fixed_vars, not_found>>

\* ---- Agent._solve_step ---------------------------------------------------

\* where _solve_step goes on after the code of one extraction site was not
\* accepted (or none was found): pre-actions run on attempt 0 only, the
\* sequence handler on attempts 0 and 1, then the tier call
SeqOrReason == (IF attempts_on_step <= 1 THEN {"seq"} ELSE {}) \cup {"reason"}
\* variant: the pre-actions run on every attempt
AfterSiteAnyAttempt(s) ==
    CASE s = "visible" -> {"pre1"} \cup SeqOrReason
      [] s = "pre1" -> {"pre2", "pre3"}
      [] s = "pre2" -> {"pre3"}
      [] s = "pre3" -> SeqOrReason
      [] s = "seq" -> {"reason"}

AfterSite(s) ==
    CASE s = "visible" -> (IF attempts_on_step = 0 THEN {"pre1"} ELSE {}) \cup SeqOrReason
      [] s = "pre1" -> {"pre2", "pre3"}
      [] s = "pre2" -> {"pre3"}
      [] s = "pre3" -> SeqOrReason
      [] s = "seq" -> {"reason"}

Continue(s) ==
    \E target \in AfterSite(s) :
        /\ pc' = target
        /\ pre_acted' = (pre_acted \/ target \in {"pre1", "seq"})

\* history.append(...) in _solve_step: after "history = history + [...]"
\* (pre_acted) the list is a copy and the caller's list does not grow
HistoryLen == IF pre_acted THEN step_history ELSE step_history + 1
\* the log holds what _solve_step appends to the list it names history
HistoryLog(log, tag) == [log EXCEPT !.history = Append(@, tag)]
\* history[-1] += " (rejected)"
HistoryReject(log) == [log EXCEPT !.history = [@ EXCEPT ![Len(@)] = "rejected"]]

\* _solve_step is left (return, exception or cancellation): its locals are gone
FrameGone ==
    /\ t0' = 0
    /\ code' = NoCode
    /\ pre_acted' = FALSE
    /\ site' = "none"
    /\ poll' = 0

\* self.state.mark_failed(); self.metrics.end_step(False, error=...); return False
FailAttempt(log) ==
    /\ attempt_log' = end_step(metric_open, mark_failed(log), FALSE, TRUE)
    /\ metric_open' = FALSE
    /\ success' = FALSE
    /\ pc' = "after"
    /\ FrameGone

\* 1-3: snapshot, then a visible code that is not used is submitted directly
PerceiveVisible ==
    /\ pc = "perceive"
    /\ \E visible \in PageTexts :
          /\ visible_code(visible, used_codes) # NoCode
          /\ code' = visible_code(visible, used_codes)
    /\ site' = "visible"
    /\ pc' = "sac_clean"
    /\ UNCHANGED <<now, url, t0, pre_acted, poll, success, metric_open,
                   submitted, attempt_log, used_codes, state_current_step>>
    /\ UNCHANGED run_vars
    /\ UNCHANGED <<fixed_vars, not_found>>

PerceiveNoVisible ==
    /\ pc = "perceive"
    /\ \E visible \in PageTexts : visible_code(visible, used_codes) = NoCode
    /\ Continue("visible")
    /\ UNCHANGED <<now, url, t0, code, site, poll, success, metric_open,
                   submitted, attempt_log, used_codes, state_current_step>>
    /\ UNCHANGED run_vars
    /\ UNCHANGED <<fixed_vars, not_found>>

\* 3b, 3c: the extraction sites after the pre-actions and the sequence handler
PreExtractFound ==
    /\ pc \in {"pre1", "pre2", "pre3", "seq"}
    /\ \E page \in Pages(Codes) :
          /\ find_code(page, used_codes) # NoCode
          /\ code' = find_code(page, used_codes)
    /\ site' = pc
    /\ pc' = "sac_clean"
    /\ UNCHANGED <<now, url, t0, pre_acted, poll, success, metric_open,
                   submitted, attempt_log, used_codes, state_current_step>>
    /\ UNCHANGED run_vars
    /\ UNCHANGED <<fixed_vars, not_found>>

PreExtractNone ==
    /\ pc \in {"pre1", "pre2", "pre3", "seq"}
    /\ \E page \in Pages(Codes) : find_code(page, used_codes) = NoCode
    /\ Continue(pc)
    /\ UNCHANGED <<now, url, t0, code, site, poll, success, metric_open,
                   submitted, attempt_log, used_codes, state_current_step>>
    /\ UNCHANGED run_vars
    /\ UNCHANGED <<fixed_vars, not_found>>

\* 4: the tier call (solve on attempt 0, solve_stuck on retries) returns
Reason ==
    /\ pc = "reason"
    /\ Binds(solver, attempts_on_step)
    /\ attempt_log' = [attempt_log EXCEPT !.tier = tier_of(attempts_on_step)]
    /\ pc' = "act"
    /\ UNCHANGED <<now, url, t0, code, pre_acted, site, poll, success, metric_open,
                   submitted, used_codes, state_current_step>>
    /\ UNCHANGED run_vars
    /\ UNCHANGED <<fixed_vars, not_found>>

\* 4: the tier call does not bind: TypeError, caught by except Exception
ReasonTypeError ==
    /\ pc = "reason"
    /\ ~Binds(solver, attempts_on_step)
    /\ FailAttempt([attempt_log EXCEPT !.raised = TRUE,
                                       !.tier = tier_of(attempts_on_step)])
    /\ UNCHANGED <<now, url, submitted, used_codes, state_current_step>>
    /\ UNCHANGED run_vars
    /\ UNCHANGED <<fixed_vars, not_found>>

\* 6a: the actions held a hover and a code is found: the metric is closed as
\* a success, then the code is submitted
ActHover ==
    /\ pc = "act"
    /\ \E page \in Pages(Codes) :
          /\ find_code(page, used_codes) # NoCode
          /\ code' = find_code(page, used_codes)
    /\ step_history' = HistoryLen
    /\ attempt_log' = end_step(metric_open, HistoryLog(attempt_log, "code"), TRUE, FALSE)
    /\ metric_open' = FALSE
    /\ site' = "hover"
    /\ pc' = "sac_clean"
    /\ UNCHANGED <<now, url, t0, pre_acted, poll, success, submitted, used_codes,
                   state_current_step, current_step, last_step, attempts_on_step,
                   step_start_time, abandoned_steps, skip_offset>>
    /\ UNCHANGED <<fixed_vars, not_found>>

\* 7-10: a code is found after the actions: record it, submit it
ActExtractFound ==
    /\ pc = "act"
    /\ \E page \in Pages(Codes) :
          /\ find_code(page, used_codes) # NoCode
          /\ code' = find_code(page, used_codes)
    /\ step_history' = HistoryLen
    /\ attempt_log' = HistoryLog(attempt_log, "code")
    /\ site' = "final"
    /\ pc' = "sac_clean"
    /\ UNCHANGED <<now, url, t0, pre_acted, poll, success, metric_open,
                   submitted, used_codes, state_current_step,
                   current_step, last_step, attempts_on_step,
                   step_start_time, abandoned_steps, skip_offset>>
    /\ UNCHANGED <<fixed_vars, not_found>>

\* no code found: the attempt fails
ActExtractNone ==
    /\ pc = "act"
    /\ \E page \in Pages(Codes) : find_code(page, used_codes) = NoCode
    /\ step_history' = HistoryLen
    /\ FailAttempt(HistoryLog(attempt_log, "nocode"))
    /\ UNCHANGED <<now, url, submitted, used_codes,
                   state_current_step, current_step, last_step, attempts_on_step,
                   step_start_time, abandoned_steps, skip_offset>>
    /\ UNCHANGED <<fixed_vars, not_found>>

\* ---- Agent._submit_and_check ---------------------------------------------

\* clean_page returned; submit_code(page, code) is called
SacSubmit ==
    /\ pc = "sac_clean"
    /\ submitted' = submitted \cup {code}
    /\ pc' = "sac_submit"
    /\ UNCHANGED <<now, url, t0, code, pre_acted, site, poll, success, metric_open,
                   attempt_log, used_codes, state_current_step>>
    /\ UNCHANGED run_vars
    /\ UNCHANGED <<fixed_vars, not_found>>

\* _submit_and_check returns False to its call site: _solve_step goes on
\* (code is assigned anew before it is read again), or returns False
ReturnFalse(log) ==
    CASE site \in {"visible", "pre1", "pre2", "pre3", "seq"} ->
            /\ Continue(site)
            /\ attempt_log' = log
            /\ code' = NoCode
            /\ site' = "none"
            /\ poll' = 0
            /\ UNCHANGED <<success, metric_open, t0>>
      [] site = "hover" ->
            /\ success' = FALSE
            /\ pc' = "after"
            /\ attempt_log' = log
            /\ FrameGone
            /\ UNCHANGED metric_open
      [] site = "final" ->
            /\ FailAttempt(HistoryReject(log))

\* submit_code returned False (no textbox, or an exception it swallowed)
SubmitNotDone ==
    /\ pc = "sac_submit"
    /\ ReturnFalse(attempt_log)
    /\ UNCHANGED <<now, url, submitted, used_codes, state_current_step>>
    /\ UNCHANGED run_vars
    /\ UNCHANGED <<fixed_vars, not_found>>

\* submit_code returned True: wait_for_url, then the advancement checks
SubmitDone ==
    /\ pc = "sac_submit"
    /\ poll' = 0
    /\ pc' = "sac_poll"
    /\ UNCHANGED <<now, url, t0, code, pre_acted, site, success, metric_open,
                   submitted, attempt_log, used_codes, state_current_step>>
    /\ UNCHANGED run_vars
    /\ UNCHANGED <<fixed_vars, not_found>>

\* advanced: mark_completed, end_step(True, code), the code becomes used, return True
PollAdvanced ==
    /\ pc = "sac_poll"
    /\ check_advancement(url, state_current_step, current_step)
    /\ attempt_log' = end_step(metric_open,
                               mark_completed([attempt_log EXCEPT !.polled = TRUE]),
                               TRUE, FALSE)
    /\ metric_open' = FALSE
    /\ used_codes' = used_codes \cup {code}
    /\ success' = TRUE
    /\ pc' = "after"
    /\ FrameGone
    /\ UNCHANGED <<now, url, submitted, state_current_step>>
    /\ UNCHANGED run_vars
    /\ UNCHANGED <<fixed_vars, not_found>>

\* not advanced yet and polls are left: sleep, check again
PollAgain ==
    /\ pc = "sac_poll"
    /\ ~check_advancement(url, state_current_step, current_step)
    /\ poll < AdvancePolls
    /\ poll' = poll + 1
    /\ UNCHANGED <<pc, now, url, t0, code, pre_acted, site, success, metric_open,
                   submitted, attempt_log, used_codes, state_current_step>>
    /\ UNCHANGED run_vars
    /\ UNCHANGED <<fixed_vars, not_found>>

\* the last poll saw no advancement: the code becomes used, return False
PollRejected ==
    /\ pc = "sac_poll"
    /\ ~check_advancement(url, state_current_step, current_step)
    /\ poll = AdvancePolls
    /\ used_codes' = used_codes \cup {code}
    /\ ReturnFalse([attempt_log EXCEPT !.polled = (site \in {"hover", "final"})])
    /\ UNCHANGED <<now, url, submitted, state_current_step>>
    /\ UNCHANGED run_vars
    /\ UNCHANGED <<fixed_vars, not_found>>

\* ---- exceptions and the per-attempt timeout --------------------------------

\* which handler an exception raised at pc p reaches
Handler(p) == IF p \in TryBlockPcs THEN "solve_step" ELSE "unhandled"

\* a collaborator raises: except Exception in _solve_step
Raise ==
    /\ pc \in RaisingPcs
    /\ IF Handler(pc) = "solve_step"
       THEN FailAttempt([attempt_log EXCEPT !.raised = TRUE])
       ELSE /\ pc' = "crashed"
            /\ UNCHANGED <<attempt_log, metric_open, success, t0, code, pre_acted,
                           site, poll>>
    /\ UNCHANGED <<now, url, submitted, used_codes, state_current_step>>
    /\ UNCHANGED run_vars
    /\ UNCHANGED <<fixed_vars, not_found>>

\* wait_for cancels the attempt: except asyncio.TimeoutError in run()
Cancel ==
    /\ pc \in AttemptPcs
    /\ TimerFired
    /\ step_history' = step_history + 1
    /\ attempt_log' = end_step(metric_open,
                               [attempt_log EXCEPT !.history = Append(@, "timeout")],
                               FALSE, FALSE)
    /\ metric_open' = FALSE
    /\ success' = FALSE
    /\ pc' = "after"
    /\ FrameGone
    /\ UNCHANGED <<now, url, submitted, used_codes,
                   state_current_step, current_step, last_step, attempts_on_step,
                   step_start_time, abandoned_steps, skip_offset>>
    /\ UNCHANGED <<fixed_vars, not_found>>

\* ---- Agent.run: after the attempt, skip-forward, abandonment ---------------

\* run() has taken the result of the attempt: the log of the attempt ends
AttemptOver ==
    /\ success' = FALSE
    /\ attempt_log' = NewLog
    /\ UNCHANGED <<t0, code, pre_acted, site, poll, metric_open, submitted,
                   used_codes, state_current_step>>

\* if success: reset the per-step state, wait for the page to settle
AfterSuccess ==
    /\ pc = "after"
    /\ success
    /\ attempts_on_step' = 0
    /\ step_history' = 0
    /\ step_start_time' = now
    /\ pc' = "settle"
    /\ AttemptOver
    /\ UNCHANGED <<now, url, current_step, last_step, abandoned_steps, skip_offset>>
    /\ UNCHANGED <<fixed_vars, not_found>>

\* _wait_for_content returned
SettleDone ==
    /\ pc = "settle"
    /\ pc' = "loop"
    /\ current_step' = 0
    /\ UNCHANGED <<now, url, last_step, attempts_on_step, step_history,
                   step_start_time, abandoned_steps, skip_offset>>
    /\ UNCHANGED attempt_vars
    /\ UNCHANGED <<fixed_vars, not_found>>

\* variant: the retry test with > in place of >=
StuckLate(n) == n > max_retries

\* if attempts_on_step >= max_attempts (after the increment)
Stuck(n) == n >= max_retries

\* else: attempts_on_step += 1, and retries are left
AfterFailureRetry ==
    /\ pc = "after"
    /\ ~success
    /\ ~Stuck(attempts_on_step + 1)
    /\ attempts_on_step' = attempts_on_step + 1
    /\ pc' = "loop"
    /\ current_step' = 0
    /\ AttemptOver
    /\ UNCHANGED <<now, url, last_step, step_history, step_start_time,
                   abandoned_steps, skip_offset>>
    /\ UNCHANGED <<fixed_vars, not_found>>

\* else: attempts_on_step += 1 reaches max_attempts: enter the skip loop
AfterFailureStuck ==
    /\ pc = "after"
    /\ ~success
    /\ Stuck(attempts_on_step + 1)
    /\ attempts_on_step' = attempts_on_step + 1
    /\ skip_offset' = 1
    /\ pc' = "skip_nav"
    /\ AttemptOver
    /\ UNCHANGED <<now, url, current_step, last_step, step_history, step_start_time,
                   abandoned_steps>>
    /\ UNCHANGED <<fixed_vars, not_found>>

\* _try_skip_step(current_step + skip_offset - 1): its next_step
next_step == current_step + skip_offset

\* variant: the step is abandoned as soon as one offset fails
SkipFailedAbandons ==
    /\ abandoned_steps' = abandoned_steps \cup {current_step}
    /\ current_step' = 0
    /\ last_step' = current_step + 1
    /\ attempts_on_step' = 0
    /\ step_history' = 0
    /\ step_start_time' = now
    /\ skip_offset' = 0
    /\ pc' = "loop"

\* _try_skip_step returned False: the next offset, or abandon the step
SkipFailed ==
    IF skip_offset < SkipOffsets
    THEN /\ skip_offset' = skip_offset + 1
         /\ pc' = "skip_nav"
         /\ UNCHANGED <<current_step, last_step, attempts_on_step, step_history,
                        step_start_time, abandoned_steps>>
    ELSE /\ abandoned_steps' = abandoned_steps \cup {current_step}
         /\ current_step' = 0
         /\ last_step' = current_step + 1
         /\ attempts_on_step' = 0
         /\ step_history' = 0
         /\ step_start_time' = now
         /\ skip_offset' = 0
         /\ pc' = "loop"

\* if next_step > total_steps: return False
SkipBeyondLast ==
    /\ pc = "skip_nav"
    /\ next_step > total_steps
    /\ SkipFailed
    /\ UNCHANGED <<now, url>>
    /\ UNCHANGED attempt_vars
    /\ UNCHANGED <<fixed_vars, not_found>>

\* pushState('/step<next_step>') and popstate, then sleep; the page that
\* comes up is a challenge page or a "not found" page
SkipNavigate ==
    /\ pc = "skip_nav"
    /\ next_step <= total_steps
    /\ url' = next_step
    /\ not_found' \in BOOLEAN
    /\ pc' = "skip_wait"
    /\ UNCHANGED now
    /\ UNCHANGED attempt_vars
    /\ UNCHANGED run_vars
    /\ UNCHANGED fixed_vars

\* page.evaluate raised: except Exception, return False
SkipNavigateRaises ==
    /\ pc = "skip_nav"
    /\ next_step <= total_steps
    /\ SkipFailed
    /\ UNCHANGED <<now, url>>
    /\ UNCHANGED attempt_vars
    /\ UNCHANGED <<fixed_vars, not_found>>

\* if actual != next_step: return False
SkipWrongStep ==
    /\ pc = "skip_wait"
    /\ detect_step_from_url(url, state_current_step) # next_step
    /\ SkipFailed
    /\ not_found' = FALSE
    /\ UNCHANGED <<now, url>>
    /\ UNCHANGED attempt_vars
    /\ UNCHANGED fixed_vars

\* the body was read and says "not found": history.back() leaves the page
\* somewhere else, sleep, return False
SkipNotFound ==
    /\ pc = "skip_wait"
    /\ detect_step_from_url(url, state_current_step) = next_step
    /\ not_found
    /\ \E u \in UrlValues : url' = u
    /\ not_found' = FALSE
    /\ pc' = "skip_back"
    /\ UNCHANGED now
    /\ UNCHANGED attempt_vars
    /\ UNCHANGED run_vars
    /\ UNCHANGED fixed_vars

SkipBackDone ==
    /\ pc = "skip_back"
    /\ SkipFailed
    /\ UNCHANGED <<now, url>>
    /\ UNCHANGED attempt_vars
    /\ UNCHANGED <<fixed_vars, not_found>>

\* _try_skip_step returns True; run() takes the target as last_step and
\* resets the per-step state
SkipAccepted ==
    /\ pc = "skip_wait"
    /\ detect_step_from_url(url, state_current_step) = next_step
    /\ last_step' = current_step + skip_offset
    /\ attempts_on_step' = 0
    /\ step_history' = 0
    /\ step_start_time' = now
    /\ skip_offset' = 0
    /\ current_step' = 0
    /\ not_found' = FALSE
    /\ pc' = "loop"
    /\ UNCHANGED <<now, url, abandoned_steps>>
    /\ UNCHANGED attempt_vars
    /\ UNCHANGED fixed_vars

\* the body was read and holds neither "not found" nor "broken link"
SkipSucceeded ==
    /\ ~not_found
    /\ SkipAccepted

\* inner_text("body") raised: body_text = "", which holds neither phrase
SkipBodyUnread ==
    /\ not_found \in BOOLEAN
    /\ SkipAccepted

\* ---- the specification ------------------------------------------------------

AgentNext ==
    \/ LoopBudgetExit \/ LoopCompleted \/ LoopUnknown \/ IdleDone
    \/ LoopAbandonedExit \/ LoopTimeSkip \/ LoopAttempt
    \/ PerceiveVisible \/ PerceiveNoVisible \/ PreExtractFound \/ PreExtractNone
    \/ Reason \/ ReasonTypeError \/ ActHover \/ ActExtractFound \/ ActExtractNone
    \/ SacSubmit \/ SubmitNotDone \/ SubmitDone
    \/ PollAdvanced \/ PollAgain \/ PollRejected
    \/ Raise \/ Cancel
    \/ AfterSuccess \/ SettleDone \/ AfterFailureRetry \/ AfterFailureStuck
    \/ SkipBeyondLast \/ SkipNavigate \/ SkipNavigateRaises \/ SkipWrongStep
    \/ SkipNotFound \/ SkipBackDone \/ SkipSucceeded \/ SkipBodyUnread

Next == AgentNext \/ Tick \/ EnvMove

Spec == Init /\ [][Next]_vars

\* The wall clock keeps advancing (every sleep and every collaborator call
\* takes time), and an awaited call returns or is cancelled
FairSpec == Spec /\ WF_vars(AgentNext) /\ SF_vars(Tick)

\* ---- the pure functions, called on their own ------------------------------

\* the run loop at rest, and one call about to be made: find_code on a page
\* and a used-code set, or _parse_instruction_actions on an instruction
PureInit ==
    /\ pc = "loop"
    /\ now = 0
    /\ url = NoStep
    /\ current_step = 0
    /\ last_step = 0
    /\ attempts_on_step = 0
    /\ step_history = 0
    /\ step_start_time = 0
    /\ abandoned_steps = {}
    /\ used_codes = {}
    /\ state_current_step = 1
    /\ t0 = 0
    /\ code = NoCode
    /\ pre_acted = FALSE
    /\ site = "none"
    /\ poll = 0
    /\ skip_offset = 0
    /\ success = FALSE
    /\ metric_open = FALSE
    /\ submitted = {}
    /\ attempt_log = NewLog
    /\ solver = "Solver"
    /\ not_found = FALSE
    /\ \/ /\ scan \in [page : Pages(ScanCodes), skip : SUBSET ScanCodes,
                        returned : {FALSE}, out : {NoCode}]
          /\ tier0 = NoTier0
          /\ batch = NoBatch
       \/ /\ scan = NoScan
          /\ tier0 \in [inst : SUBSET Phrases, first : ElementLists, second : {<<>>},
                         calls : {0}, out1 : {<<>>}, out2 : {<<>>}]
          /\ tier0 # NoTier0
          /\ batch = NoBatch
       \/ /\ scan = NoScan
          /\ tier0 = NoTier0
          /\ batch \in [actions : ActionLists, done : {0}, results : {<<>>},
                         aborted : {FALSE}]

loop_vars == <<pc, now, url, current_step, last_step, attempts_on_step, step_history,
               step_start_time, abandoned_steps, used_codes, state_current_step, t0,
               code, pre_acted, site, poll, skip_offset, success, metric_open,
               submitted, attempt_log, solver, not_found>>

\* code = await find_code(page, used_codes)
FindCode ==
    /\ scan # NoScan
    /\ ~scan.returned
    /\ scan' = [scan EXCEPT !.returned = TRUE, !.out = find_code(scan.page, scan.skip)]
    /\ UNCHANGED <<loop_vars, tier0, batch>>

\* pre_actions = _parse_instruction_actions(instruction, elements)
ParseFirst ==
    /\ tier0 # NoTier0
    /\ tier0.calls = 0
    /\ tier0' = [tier0 EXCEPT !.calls = 1,
                              !.out1 = parse_instruction_actions(tier0.inst, tier0.first)]
    /\ UNCHANGED <<loop_vars, scan, batch>>

\* the same instruction is parsed again, on the elements the page has then
ParseSecond ==
    /\ tier0.calls = 1
    /\ \E elements \in ElementLists :
          tier0' = [tier0 EXCEPT !.calls = 2,
                                 !.second = elements,
                                 !.out2 = parse_instruction_actions(tier0.inst, elements)]
    /\ UNCHANGED <<loop_vars, scan, batch>>

\* for action in actions: await execute_action(page, action, all_elements);
\* the value returned is not looked at, an exception leaves the loop and is
\* caught by except Exception of _solve_step
ExecuteAction ==
    /\ ~batch.aborted
    /\ batch.done < Len(batch.actions)
    /\ \E unhide_raises \in BOOLEAN, apply \in {"ok", "fails", "raises"} :
          LET r == executor_run(batch.actions[batch.done + 1], unhide_raises, apply)
          IN  batch' = IF r = "raised"
                       THEN [batch EXCEPT !.aborted = TRUE]
                       ELSE [batch EXCEPT !.done = @ + 1, !.results = Append(@, r)]
    /\ UNCHANGED <<loop_vars, scan, tier0>>

PureNext == FindCode \/ ParseFirst \/ ParseSecond \/ ExecuteAction

PureSpec == PureInit /\ [][PureNext]_vars

\* ---- properties ---------------------------------------------------------------

\* submit_code is being called with code
SubmitCall == pc = "sac_clean" /\ pc' = "sac_submit"
\* an extraction site hands its code to _submit_and_check
HandOver == pc # "sac_clean" /\ pc' = "sac_clean"
\* _solve_step is being invoked
SolveStepCall == pc = "loop" /\ pc' = "perceive"

\* C1: _used_codes only grows, every code handed to _submit_and_check was
\* absent from _used_codes when it was chosen, and submit_code is never
\* invoked with a code that is in _used_codes
C1_UsedCodeNotSubmittedAgain ==
    [][/\ used_codes \subseteq used_codes'
       /\ HandOver => code' \notin used_codes
       /\ SubmitCall => code \notin used_codes]_vars

\* a used code exists and an extraction site has just passed over it
C1_Witness ==
    /\ used_codes # {}
    /\ pc \in {"pre1", "pre2", "pre3", "seq", "reason", "sac_clean"}
    /\ attempts_on_step = 0

\* C2: submit_code is invoked at most once per distinct code in a run
C2_SubmittedAtMostOnce == [][SubmitCall => code \notin submitted]_vars

\* C3: abandoned_steps only grows, no attempt is ever in flight on an
\* abandoned step, and the loop top that observes an abandoned step ends
\* the loop instead of invoking _solve_step
C3_AbandonedNotAttempted ==
    /\ [](pc \in AttemptPcs => current_step \notin abandoned_steps)
    /\ [][/\ abandoned_steps \subseteq abandoned_steps'
          /\ SolveStepCall => current_step' \notin abandoned_steps
          /\ (pc = "loop" /\ ~is_over_budget(now) /\ Observed \in abandoned_steps)
                => pc' \in {"loop", "done"}]_vars

\* the loop ended on observing an abandoned step
C3_Witness ==
    /\ pc = "done"
    /\ ~is_over_budget(now)
    /\ current_step \in abandoned_steps

\* C4: a failed attempt adds exactly one to attempts_on_step, the skip loop
\* is entered as soon as it reaches max_retries, and _solve_step never runs
\* with an attempt index of max_retries or more
C4_RetriesBounded ==
    /\ [](attempts_on_step <= max_retries)
    /\ [](pc \in AttemptPcs \cup {"after"} => attempts_on_step < max_retries)
    /\ [][(pc = "after" /\ pc' # "after" /\ ~success) =>
             /\ attempts_on_step' = attempts_on_step + 1
             /\ pc' = (IF attempts_on_step' >= max_retries THEN "skip_nav" ELSE "loop")]_vars

\* the last permitted attempt failed and the skip loop runs
C4_Witness == pc = "skip_nav" /\ attempts_on_step = max_retries /\ skip_offset = 1

\* the step the agent is working on, and the step the page shows
WorkedStep == IF pc = "loop" THEN last_step ELSE current_step
PageStep == detect_step_from_url(url, state_current_step)
\* the per-step state is being reset
CounterReset ==
    \/ attempts_on_step > 0 /\ attempts_on_step' = 0
    \/ step_history > 0 /\ step_history' = 0
\* the step is being abandoned
Abandoning == skip_offset = SkipOffsets /\ pc' = "loop" /\ last_step' = current_step + 1

\* C5 as stated: the per-step state is never reset while the page still
\* shows the step worked on
C5_ResetOnlyOnChange == [][CounterReset => PageStep # WorkedStep]_vars

\* C5: attempts_on_step is 0 and the history is empty once the loop top
\* observes another step than before, a retry (attempt index above 0) is
\* made only on the step of the attempt before it, and the per-step state is
\* reset only when the page shows another step or the step is abandoned
C5_ResetOnChangeOrAbandon ==
    [][/\ (pc = "loop" /\ pc' \notin {"loop", "done", "idle"} /\ Observed # last_step)
             => attempts_on_step' = 0 /\ step_history' = 0
       /\ (SolveStepCall /\ attempts_on_step' > 0) => current_step' = state_current_step
       /\ CounterReset => (PageStep # WorkedStep \/ Abandoning)]_vars

\* a step was abandoned and its state reset while the page still shows it
C5_Witness ==
    /\ pc = "loop"
    /\ url \in abandoned_steps
    /\ last_step = url + 1
    /\ attempts_on_step = 0
    /\ step_history = 0

\* C6: the skip offsets are tried in the order 1, 2, 3, a step is abandoned
\* only after offset 3 failed, abandoning adds exactly the step worked on,
\* which was not in abandoned_steps, and nothing else changes abandoned_steps
C6_SkipForwardBound ==
    /\ [](skip_offset \in 0..3 /\ (pc \in {"skip_nav", "skip_wait", "skip_back"} <=> skip_offset > 0))
    /\ [][/\ skip_offset' # skip_offset =>
                \/ skip_offset = 0 /\ skip_offset' = 1
                \/ skip_offset' = skip_offset + 1
                \/ skip_offset' = 0
          /\ abandoned_steps' # abandoned_steps =>
                /\ skip_offset = 3
                /\ current_step \notin abandoned_steps
                /\ abandoned_steps' = abandoned_steps \cup {current_step}
                /\ Cardinality(abandoned_steps') = Cardinality(abandoned_steps) + 1
          /\ (pc \in {"skip_nav", "skip_wait", "skip_back"} /\ pc' = "loop") =>
                \/ /\ last_step' = current_step + skip_offset
                   /\ PageStep = last_step'
                   /\ abandoned_steps' = abandoned_steps
                \/ /\ skip_offset = 3
                   /\ abandoned_steps' # abandoned_steps]_vars

\* the third offset failed and the step was abandoned
C6_Witness == pc = "loop" /\ abandoned_steps # {} /\ last_step - 1 \in abandoned_steps

\* C7: the elapsed time never decreases, no attempt starts once the budget is
\* reached, an attempt in flight is over within the per-attempt timeout (one
\* clock quantum of slack), the loop top reached at or after the budget ends
\* the loop, and no exception is left unhandled
C7_GlobalBudget ==
    /\ [](pc \in AttemptPcs => now - t0 < AttemptTimeout + TickSeconds)
    /\ [](pc # "crashed")
    /\ [][/\ now' >= now
          /\ SolveStepCall => now < max_time
          /\ (pc = "loop" /\ now >= max_time) => pc' \in {"loop", "done"}]_vars

\* the budget ran out while an attempt was in flight
C7_Witness == pc \in AttemptPcs /\ now >= max_time

\* C8: the loop ends only at the loop top, over budget or on a step beyond
\* total_steps or on an abandoned step; an attempt always ends in a result
\* the loop goes on with, a raised exception or a timeout gives False, and
\* no exception is left unhandled
C8_LoopEndsForThreeReasons ==
    /\ [](pc # "crashed")
    /\ [](pc = "after" /\ attempt_log.raised => ~success)
    /\ [](pc = "after" /\ success => check_advancement(url, state_current_step, current_step))
    /\ [][/\ (pc # "done" /\ pc' = "done") =>
                /\ pc = "loop"
                /\ \/ is_over_budget(now)
                   \/ Observed > total_steps
                   \/ Observed \in abandoned_steps
          /\ (pc \in AttemptPcs /\ pc' \notin AttemptPcs) => pc' = "after"
          /\ pc = "after" => pc' \in {"after", "settle", "loop", "skip_nav"}]_vars

\* an exception raised inside _submit_and_check was absorbed
C8_Witness == pc = "after" /\ attempt_log.raised /\ attempt_log.metric.success /\ ~success

\* C9: every run leaves the main loop
C9_Termination == <>(pc = "done")

\* the loop ended because the budget was used up
C9_Witness == pc = "done" /\ is_over_budget(now) /\ abandoned_steps # {}

\* C10: an attempt in which a collaborator raised returns False, counts one
\* failed step and records one metric, a failed one carrying the error
C10_ExceptionRecordedAsFailure ==
    (pc = "after" /\ attempt_log.raised) =>
        /\ ~success
        /\ attempt_log.failed = 1
        /\ attempt_log.metrics = 1
        /\ attempt_log.metric = [success |-> FALSE, error |-> TRUE]

\* the attempt that is over was cancelled by the per-attempt timeout
TimedOut(log) == Len(log.history) > 0 /\ log.history[Len(log.history)] = "timeout"

\* C11: an attempt cancelled by the timeout has returned no success, has
\* exactly one "timed out" history entry and exactly one metric, a failed one
C11_TimeoutIsFailedAttempt ==
    (pc = "after" /\ TimedOut(attempt_log)) =>
        /\ ~success
        /\ Cardinality({i \in DOMAIN attempt_log.history :
                           attempt_log.history[i] = "timeout"}) = 1
        /\ attempt_log.metrics = 1
        /\ ~attempt_log.metric.success

\* C12: _submit_and_check returns True exactly when submit_code was done and
\* one of the 1 + AdvancePolls checks sees a step above the step being solved;
\* then mark_completed ran once and the code is in _used_codes
C12_AcceptedSubmission ==
    [][/\ (success' /\ ~success) =>
             /\ pc = "sac_poll" /\ pc' = "after"
             /\ code \in submitted
             /\ poll <= AdvancePolls
             /\ detect_step_from_url(url, state_current_step) > current_step
             /\ attempt_log'.completed = attempt_log.completed + 1
             /\ code \in used_codes'
       /\ (pc = "sac_poll" /\ pc' # "sac_poll" /\ ~TimedOut(attempt_log')) =>
             (success' <=> detect_step_from_url(url, state_current_step) > current_step)
       /\ (pc = "sac_submit" /\ pc' \notin {"sac_submit", "sac_poll"}) => ~success'
       /\ attempt_log'.completed > attempt_log.completed => success']_vars

\* a submission was accepted
C12_Witness ==
    /\ pc = "after"
    /\ success
    /\ attempt_log.completed = 1
    /\ used_codes # {}

\* C13: an attempt that returned after its submitted code was not accepted
\* has that code in _used_codes, counts one failed step, has one failed
\* metric carrying an error, and one history entry, marked rejected
C13_RejectedSubmission ==
    (pc = "after" /\ attempt_log.polled /\ ~success) =>
        /\ used_codes # {}
        /\ attempt_log.failed = 1
        /\ attempt_log.metrics = 1
        /\ attempt_log.metric = [success |-> FALSE, error |-> TRUE]
        /\ attempt_log.history = <<"rejected">>

\* C14: the step _solve_step is invoked for is the step the URL shows
C14_StepIsObserved == [][SolveStepCall => current_step' = url]_vars

\* C15: the tier called is 1 on attempt index 0 and 2 on every later one, at
\* most one tier is called in an attempt, and the actions are executed only
\* after a tier call
C15_TierByAttemptIndex ==
    /\ [](pc \in AttemptPcs \cup {"after"} /\ attempt_log.tier # 0 =>
             attempt_log.tier = (IF attempts_on_step = 0 THEN 1 ELSE 2))
    /\ [](pc = "act" => attempt_log.tier # 0)
    /\ [][attempt_log.tier # 0 => attempt_log'.tier \in {attempt_log.tier, 0}]_vars

\* a retry called the recovery tier
C15_Witness == pc = "act" /\ attempts_on_step = 1 /\ attempt_log.tier = 2

\* C16: a tier call made on the Solver of solver.py returns its actions
C16_TierCallReturns ==
    [][(pc = "reason" /\ solver = "Solver" /\ attempt_log'.tier # 0) => pc' = "act"]_vars

\* the codes a page holds
PageCodes(page) ==
    ({page.green, page.hidden} \ {NoCode}) \cup {page.text[i] : i \in DOMAIN page.text}

\* C17 (as stated): find_code returns None or a code not in the used set,
\* and when the page text holds several candidates it returns the first one
\* in text order that is not used
C17_FirstUnusedInTextOrder ==
    scan.returned =>
        /\ scan.out = NoCode \/ scan.out \notin scan.skip
        /\ ( /\ Len(scan.page.text) >= 2
             /\ \E i \in DOMAIN scan.page.text : scan.page.text[i] \notin scan.skip
             /\ scan.page.green \in {NoCode} \cup {scan.page.text[i] : i \in DOMAIN scan.page.text}
           ) => \E i \in DOMAIN scan.page.text :
                    /\ scan.out = scan.page.text[i]
                    /\ \A j \in 1..(i - 1) : scan.page.text[j] \in scan.skip

\* C17 (amended): find_code returns None or a code of the page not in the used
\* set; an unused code of the green scan is returned before any text
\* candidate; otherwise the first text candidate, in text order, that is not
\* used; None only when every code of the page is used
C17_UnusedGreenThenTextOrder ==
    scan.returned =>
        /\ scan.out = NoCode \/ scan.out \notin scan.skip
        /\ scan.out # NoCode => scan.out \in PageCodes(scan.page)
        /\ scan.out = NoCode => PageCodes(scan.page) \subseteq scan.skip
        /\ (scan.page.green # NoCode /\ scan.page.green \notin scan.skip) =>
               scan.out = scan.page.green
        /\ ( /\ scan.page.green \in {NoCode} \cup scan.skip
             /\ \E i \in DOMAIN scan.page.text : scan.page.text[i] \notin scan.skip
           ) => \E i \in DOMAIN scan.page.text :
                    /\ scan.out = scan.page.text[i]
                    /\ \A j \in 1..(i - 1) : scan.page.text[j] \in scan.skip

\* the green code and the first text candidate are used, the second is returned
C17_Witness ==
    /\ scan.returned
    /\ Len(scan.page.text) >= 2
    /\ scan.page.green # NoCode
    /\ scan.page.green \in scan.skip
    /\ scan.page.text[1] \in scan.skip
    /\ scan.out = scan.page.text[2]

\* the elements of a page a hover can target, with what their order is
\* decided by, the first clickable element merely named "hover", and the
\* first canvas
Targets(elements) ==
    LET control(i) == /\ elements[i].tag \in {"input", "button"}
                      /\ elements[i].name \cap {"submit", "code"} # {}
        named == {i \in DOMAIN elements : ~control(i) /\ "hover here" \in elements[i].name}
        other == {i \in DOMAIN elements :
                     ~control(i) /\ "hover" \in elements[i].name /\ elements[i].clickable}
        canvas == {i \in DOMAIN elements : elements[i].tag = "canvas"}
    IN  [named  |-> {<<i, elements[i].clickable, elements[i].area>> : i \in named},
         other  |-> {i \in other : \A j \in other : i <= j},
         canvas |-> {i \in canvas : \A j \in canvas : i <= j}]

JustAbandoned ==
    /\ pc = "loop"
    /\ (last_step - 1) \in abandoned_steps
    /\ last_step <= total_steps
    /\ url # NoStep
    /\ attempts_on_step = 0
    /\ step_history = 0

\* C19: after step s is abandoned the loop goes on with s + 1: the next
\* thing the run does, unless the budget is over, is an attempt on s + 1
C19_AbandonThenNextStep ==
    [][(JustAbandoned /\ ~is_over_budget(now) /\ pc' \notin {"loop", "idle"}) =>
           (pc' = "perceive" /\ current_step' = last_step)]_vars

\* _try_skip_step is returning True
SkipReturnsTrue == pc = "skip_wait" /\ pc' = "loop" /\ abandoned_steps' = abandoned_steps

\* C20: a skip is accepted only when the step observed after navigating is
\* the target and the page is not a "not found" page; the target is then the
\* step worked on, attempts and history are reset, abandoned_steps is unchanged
C20_SkipAcceptedOnlyIfVerified ==
    [][SkipReturnsTrue =>
           /\ detect_step_from_url(url, state_current_step) = current_step + skip_offset
           /\ ~not_found
           /\ last_step' = current_step + skip_offset
           /\ attempts_on_step' = 0
           /\ step_history' = 0
           /\ abandoned_steps' = abandoned_steps]_vars

\* C21: an exception caught at the attempt boundary leaves an entry in the
\* step's history
C21_ExceptionInHistory ==
    [][(pc \in AttemptPcs /\ pc' = "after" /\ ~attempt_log.raised /\ attempt_log'.raised)
           => step_history' = step_history + 1]_vars

\* C22: when a skip offset fails because the step observed after the
\* navigation is not the target, the next offset starts with the page at the
\* stuck step
C22_RevertBeforeNextOffset ==
    [][(pc = "skip_wait" /\ pc' = "skip_nav")
           => detect_step_from_url(url', state_current_step') = current_step]_vars

\* the step has been worked on for longer than the ceiling
OverCeiling == now - StepStartAtTop > max_step_total

\* C23 (as stated): whenever the time spent on the step exceeds the ceiling
\* at the loop top, the loop runs skip-forward instead of an attempt
C23_CeilingAnyAttemptCount ==
    [][(Workable /\ OverCeiling) => pc' = "skip_nav"]_vars

\* C23 (amended): with the ceiling exceeded and at least one attempt made on
\* the step, the loop runs skip-forward whatever the retries left; with no
\* attempt made it starts an attempt whatever the time spent
C23_CeilingAfterFirstAttempt ==
    [][/\ (Workable /\ OverCeiling /\ AttemptsAtTop > 0) =>
             (pc' = "skip_nav" /\ skip_offset' = 1 /\ current_step' = Observed)
       /\ (Workable /\ AttemptsAtTop = 0) => pc' = "perceive"
       /\ SolveStepCall => (~OverCeiling \/ attempts_on_step' = 0)]_vars

\* the ceiling forced a skip while a retry was left
C23_Witness ==
    /\ pc = "skip_nav"
    /\ skip_offset = 1
    /\ attempts_on_step > 0
    /\ attempts_on_step < max_retries

SacPcs == {"sac_clean", "sac_submit", "sac_poll"}
PreSites == {"pre1", "pre2", "pre3"}

\* _parse_instruction_actions proposed actions, they were executed, and a
\* code is looked for or is being submitted
Tier0Stage == pc \in PreSites \/ (pc \in SacPcs /\ site \in PreSites)

C25_VisibleCodeFirst ==
    [][/\ (pc # "sac_clean" /\ pc' = "sac_clean" /\ site' = "visible") =>
             /\ pc = "perceive"
             /\ code' \notin used_codes
             /\ attempt_log.tier = 0
             /\ ~pre_acted
       /\ (site = "visible" /\ success') => (attempt_log'.tier = 0 /\ pc' = "after")
       /\ ( /\ site = "visible"
            /\ pc \in {"sac_submit", "sac_poll"}
            /\ pc' \notin SacPcs
            /\ ~success'
            /\ ~TimedOut(attempt_log')
          ) => /\ pc' \in {"pre1", "seq", "reason"}
               /\ attempt_log'.failed = attempt_log.failed
               /\ attempt_log'.metrics = attempt_log.metrics
               /\ metric_open']_vars

\* a visible code is being checked, before any tier call
C25_Witness ==
    /\ pc = "sac_poll"
    /\ site = "visible"
    /\ attempt_log.tier = 0
    /\ ~pre_acted

\* the attempt ends at "no code found"
EndsWithoutCode ==
    /\ pc = "act"
    /\ pc' = "after"
    /\ Len(attempt_log'.history) > 0
    /\ attempt_log'.history[Len(attempt_log'.history)] = "nocode"

\* C26: an attempt that ends without a code appends one entry to the
\* caller's history and returns False, pre-actions or not
C26_NoCodeEntryInCallerHistory ==
    [][EndsWithoutCode => (step_history' = step_history + 1 /\ ~success')]_vars

\* C27: every action of the list is passed to executor.run, which returns
\* True or False and never raises, so no action ends the loop over the list
C27_BestEffortBatch ==
    /\ ~batch.aborted
    /\ \A i \in DOMAIN batch.results : batch.results[i] \in {"True", "False"}

\* C28: a metric with success = True is recorded only for an attempt whose
\* code was seen to advance the step: the successful metrics of an attempt
\* are as many as its mark_completed calls
C28_SuccessMetricMeansAdvanced ==
    (attempt_log.metrics > 0 /\ attempt_log.metric.success) => attempt_log.completed = 1

\* C29: an attempt that is over has appended exactly one metric, none stays
\* open, and a metric that was appended is not changed afterwards
C29_OneMetricPerAttempt ==
    /\ [](pc = "after" => (attempt_log.metrics = 1 /\ ~metric_open))
    /\ [](attempt_log.metrics <= 1)
    /\ [](pc \in AttemptPcs => (metric_open <=> attempt_log.metrics = 0))
    /\ [][(attempt_log.metrics = 1 /\ attempt_log' # NewLog) =>
              (attempt_log'.metrics = 1 /\ attempt_log'.metric = attempt_log.metric)]_vars

\* end_step was called twice in the attempt (before the submission, and by
\* nobody after its rejection) and one metric was appended
C29_Witness ==
    /\ pc = "after"
    /\ attempt_log.polled
    /\ ~success
    /\ attempt_log.metric.success
    /\ attempt_log.metrics = 1

\* C30: once the budget is exceeded the run makes no skip-forward
\* navigation and adds no step to abandoned_steps
C30_NothingAfterBudget ==
    [][is_over_budget(now) =>
          /\ ~(pc = "skip_nav" /\ pc' = "skip_wait")
          /\ abandoned_steps' = abandoned_steps]_vars

====
